---- MODULE Spec2Model ----
(***************************************************************************)
(* A model of the OPC UA adapter of src/main.py: the lazy global client    *)
(* (get_opcua_client / cleanup_client), the value coercion                 *)
(* (detect_and_convert_value / auto_detect_variant) and the two batch      *)
(* tools (read_multiple_opcua_nodes / write_multiple_opcua_nodes).         *)
(*                                                                         *)
(* Texts are sequences of one-character strings, so that str.lower(),      *)
(* int() and float() are computed character by character.  Python's int    *)
(* is unbounded: an integer is a sign and a sequence of decimal digits.    *)
(***************************************************************************)
EXTENDS Integers, Sequences, FiniteSets, TLC

(***************************************************************************)
(* Bounds of the model.                                                    *)
(***************************************************************************)
\* Longest text enumerated exhaustively over Alphabet.
MaxLen == 3

\* Client objects constructed in one run.
MaxClients == 2

\* Request handlers that can be in flight.
NumTasks == 2

\* Longest batch of one read_multiple / write_multiple call in BatchSpec, and of
\* one write_multiple call in ToolSpec.
MaxBatch == 2

\* Longest batch of a call in Spec, the whole run with cleanup_client, and of one
\* read_multiple call in ToolSpec.
MaxRunBatch == 1

\* Children of the node browse_opcua_node_children is called on.
MaxChildren == 2

(***************************************************************************)
(* Text: characters, str.lower(), str.strip().                             *)
(***************************************************************************)
DigitChars == <<"0", "1", "2", "3", "4", "5", "6", "7", "8", "9">>

Digits == {DigitChars[i] : i \in 1..Len(DigitChars)}

LowerLetters == <<"a", "e", "f", "i", "l", "n", "o", "r", "s", "t", "u", "y">>

UpperLetters == <<"A", "E", "F", "I", "L", "N", "O", "R", "S", "T", "U", "Y">>

\* str.lower() on one character: an upper-case letter maps to its lower-case
\* letter, every other character to itself.
LowerChar(c) ==
    IF \E i \in 1..Len(UpperLetters) : UpperLetters[i] = c
    THEN LowerLetters[CHOOSE i \in 1..Len(UpperLetters) : UpperLetters[i] = c]
    ELSE c

UpperChar(c) ==
    IF \E i \in 1..Len(LowerLetters) : LowerLetters[i] = c
    THEN UpperLetters[CHOOSE i \in 1..Len(LowerLetters) : LowerLetters[i] = c]
    ELSE c

\* Mutant: the .lower() call forgotten.
lower_forgotten(value) == value

\* value.lower()
lower(value) == [i \in 1..Len(value) |-> LowerChar(value[i])]

RECURSIVE LStrip(_)
LStrip(s) == IF s # <<>> /\ Head(s) = " " THEN LStrip(Tail(s)) ELSE s

RECURSIVE RStrip(_)
RStrip(s) ==
    IF s # <<>> /\ s[Len(s)] = " " THEN RStrip(SubSeq(s, 1, Len(s) - 1)) ELSE s

\* The whitespace int() and float() ignore at both ends of their argument.
Strip(s) == RStrip(LStrip(s))

AllDigits(s) == \A i \in 1..Len(s) : s[i] \in Digits

DigitVal(c) == (CHOOSE i \in 1..Len(DigitChars) : DigitChars[i] = c) - 1

(***************************************************************************)
(* Python integers: [neg, mag], mag the decimal digits without leading     *)
(* zeros (zero is the empty sequence, and is never negative).              *)
(***************************************************************************)
RECURSIVE StripZeros(_)
StripZeros(d) == IF d # <<>> /\ Head(d) = 0 THEN StripZeros(Tail(d)) ELSE d

BigInt(neg, digits) ==
    LET m == StripZeros(digits)
    IN  [neg |-> neg /\ m # <<>>, mag |-> m]

MagLess(a, b) ==
    \/ Len(a) < Len(b)
    \/ /\ Len(a) = Len(b)
       /\ \E i \in 1..Len(a) : a[i] < b[i] /\ \A j \in 1..(i - 1) : a[j] = b[j]

\* Mutant: < written for <=.
BigLess(x, y) ==
    CASE x.neg /\ ~y.neg  -> TRUE
      [] ~x.neg /\ y.neg  -> FALSE
      [] ~x.neg /\ ~y.neg -> MagLess(x.mag, y.mag)
      [] x.neg /\ y.neg   -> MagLess(y.mag, x.mag)

\* x <= y on Python integers.
BigLeq(x, y) ==
    CASE x.neg /\ ~y.neg  -> TRUE
      [] ~x.neg /\ y.neg  -> FALSE
      [] ~x.neg /\ ~y.neg -> x.mag = y.mag \/ MagLess(x.mag, y.mag)
      [] x.neg /\ y.neg   -> x.mag = y.mag \/ MagLess(y.mag, x.mag)

\* The literals of auto_detect_variant's range tests.
Int16Min == BigInt(TRUE, <<3, 2, 7, 6, 8>>)

Int16Max == BigInt(FALSE, <<3, 2, 7, 6, 7>>)

Int32Min == BigInt(TRUE, <<2, 1, 4, 7, 4, 8, 3, 6, 4, 8>>)

Int32Max == BigInt(FALSE, <<2, 1, 4, 7, 4, 8, 3, 6, 4, 7>>)

(***************************************************************************)
(* int(value) and float(value): [ok |-> FALSE] stands for ValueError.      *)
(***************************************************************************)
Unsigned(s) == IF s # <<>> /\ Head(s) \in {"+", "-"} THEN Tail(s) ELSE s

IsNeg(s) == s # <<>> /\ Head(s) = "-"

int(value) ==
    LET s == Strip(value)
        d == Unsigned(s)
    IN  IF d # <<>> /\ AllDigits(d)
        THEN [ok |-> TRUE,
              v |-> BigInt(IsNeg(s), [i \in 1..Len(d) |-> DigitVal(d[i])])]
        ELSE [ok |-> FALSE]

\* Index of the first character of s in set C, or 0.
FirstIn(s, C) ==
    IF \E i \in 1..Len(s) : s[i] \in C
    THEN CHOOSE i \in 1..Len(s) : s[i] \in C /\ \A j \in 1..(i - 1) : s[j] \notin C
    ELSE 0

\* digits [ "." digits ], with a digit on at least one side of the point.
IsDecimal(m) ==
    LET p  == FirstIn(m, {"."})
        ip == IF p = 0 THEN m ELSE SubSeq(m, 1, p - 1)
        fp == IF p = 0 THEN <<>> ELSE SubSeq(m, p + 1, Len(m))
    IN  AllDigits(ip) /\ AllDigits(fp) /\ (ip # <<>> \/ fp # <<>>)

\* ("e" | "E") [sign] digits
IsExponent(x) == Unsigned(x) # <<>> /\ AllDigits(Unsigned(x))

FloatWords ==
    { <<"i", "n", "f">>, <<"n", "a", "n">>,
      <<"i", "n", "f", "i", "n", "i", "t", "y">> }

float(value) ==
    LET s == Strip(value)
        b == Unsigned(s)
        e == FirstIn(b, {"e", "E"})
        m == IF e = 0 THEN b ELSE SubSeq(b, 1, e - 1)
        x == IF e = 0 THEN <<>> ELSE SubSeq(b, e + 1, Len(b))
    IN  IF lower(b) \in FloatWords
        THEN [ok |-> TRUE,
              v |-> [neg |-> IsNeg(s), word |-> lower(b), mant |-> <<>>, exp |-> <<>>]]
        ELSE IF IsDecimal(m) /\ (e = 0 \/ IsExponent(x))
        THEN [ok |-> TRUE,
              v |-> [neg |-> IsNeg(s), word |-> <<>>, mant |-> m, exp |-> x]]
        ELSE [ok |-> FALSE]

(***************************************************************************)
(* ua.Variant: a value tagged with its ua.VariantType.                     *)
(***************************************************************************)
IntTypes ==
    {"Int16", "Int32", "UInt16", "UInt32", "Byte", "SByte", "Int64", "UInt64"}

FloatTypes == {"Float", "Double"}

\* The twelve types detect_and_convert_value has a branch for.
HandledTypes == IntTypes \cup FloatTypes \cup {"Boolean", "String"}

\* Two of the ua.VariantType members it has no branch for.
OtherTypes == {"DateTime", "ByteString"}

VariantTypes == HandledTypes \cup OtherTypes

IntValue(v) == [k |-> "int", int |-> v]

FloatValue(v) == [k |-> "float", float |-> v]

BoolValue(b) == [k |-> "bool", bool |-> b]

StrValue(s) == [k |-> "str", str |-> s]

Variant(value, varianttype) == [Value |-> value, VariantType |-> varianttype]

NoVariant == Variant([k |-> "none"], "Null")

\* The outcome of a call: it returns ret, or raises exc.
Return(v) == [exc |-> "None", ret |-> v]

Raise(e) == [exc |-> e, ret |-> NoVariant]

(***************************************************************************)
(* auto_detect_variant (lines 98-126)                                      *)
(***************************************************************************)
T_true == <<"t", "r", "u", "e">>

T_false == <<"f", "a", "l", "s", "e">>

T_on == <<"o", "n">>

T_off == <<"o", "f", "f">>

T_yes == <<"y", "e", "s">>

T_no == <<"n", "o">>

T_1 == <<"1">>

\* line 101
BoolWords == {T_true, T_false, T_on, T_off, T_yes, T_no}

\* line 102
AutoTruthy == {T_true, T_on, T_yes, T_1}

\* line 85
TypedTruthy == {T_true, T_1, T_on, T_yes}

auto_detect_variant(value) ==
    IF lower(value) \in BoolWords
    THEN Variant(BoolValue(lower(value) \in AutoTruthy), "Boolean")
    ELSE IF int(value).ok
    THEN LET int_value == int(value).v
         IN  IF BigLeq(Int16Min, int_value) /\ BigLeq(int_value, Int16Max)
             THEN Variant(IntValue(int_value), "Int16")
             ELSE IF BigLeq(Int32Min, int_value) /\ BigLeq(int_value, Int32Max)
             THEN Variant(IntValue(int_value), "Int32")
             ELSE Variant(IntValue(int_value), "Int64")
    ELSE IF float(value).ok
    THEN Variant(FloatValue(float(value).v), "Float")
    ELSE Variant(StrValue(value), "String")

(***************************************************************************)
(* detect_and_convert_value (lines 51-96).  `node` is what the type query  *)
(* node.get_data_value() does: it raises, or yields the node's current     *)
(* VariantType.                                                            *)
(***************************************************************************)
TypeQueryRaises == [raises |-> TRUE, VariantType |-> "Null"]

TypeQueryGives(t) == [raises |-> FALSE, VariantType |-> t]

\* Mutant: the node's type is queried and then ignored.
convert_ignoring_node_type(node, value) ==
    IF node.raises THEN Raise("UaError") ELSE Return(auto_detect_variant(value))

\* The body of the try block, lines 56-92.
convert_by_node_type(node, value) ==
    IF node.raises
    THEN Raise("UaError")
    ELSE LET current_variant_type == node.VariantType
         IN  CASE current_variant_type \in IntTypes ->
                    IF int(value).ok
                    THEN Return(Variant(IntValue(int(value).v), current_variant_type))
                    ELSE Raise("ValueError")
               [] current_variant_type \in FloatTypes ->
                    IF float(value).ok
                    THEN Return(Variant(FloatValue(float(value).v), current_variant_type))
                    ELSE Raise("ValueError")
               [] current_variant_type = "Boolean" ->
                    Return(Variant(BoolValue(lower(value) \in TypedTruthy), "Boolean"))
               [] current_variant_type = "String" ->
                    Return(Variant(StrValue(value), "String"))
               [] OTHER -> Return(auto_detect_variant(value))

\* Mutant: the handler catches the type query's error only.
detect_and_convert_value_narrow_except(node, value) ==
    LET r == convert_by_node_type(node, value)
    IN  IF r.exc = "UaError" THEN Return(auto_detect_variant(value)) ELSE r

\* try ... except Exception: return auto_detect_variant(value)
detect_and_convert_value(node, value) ==
    LET r == convert_by_node_type(node, value)
    IN  IF r.exc # "None" THEN Return(auto_detect_variant(value)) ELSE r

(***************************************************************************)
(* The texts the coercion is checked on.                                   *)
(***************************************************************************)
Alphabet == {"0", "1", "-", "+", ".", " ", "e", "x"}

ShortTexts == UNION {[1..n -> Alphabet] : n \in 0..MaxLen}

RECURSIVE CaseVariants(_)
CaseVariants(w) ==
    IF w = <<>>
    THEN {<<>>}
    ELSE {<<c>> \o r : c \in {Head(w), UpperChar(Head(w))}, r \in CaseVariants(Tail(w))}

\* true/false/on/off/yes/no in every letter case.
BoolTexts == UNION {CaseVariants(w) : w \in BoolWords}

T_32767 == <<"3", "2", "7", "6", "7">>

T_32768 == <<"3", "2", "7", "6", "8">>

T_m32768 == <<"-">> \o T_32768

T_m32769 == <<"-", "3", "2", "7", "6", "9">>

T_2147483647 == <<"2", "1", "4", "7", "4", "8", "3", "6", "4", "7">>

T_2147483648 == <<"2", "1", "4", "7", "4", "8", "3", "6", "4", "8">>

T_m2147483648 == <<"-">> \o T_2147483648

T_m2147483649 == <<"-", "2", "1", "4", "7", "4", "8", "3", "6", "4", "9">>

\* 2^63, outside the 64-bit signed range.
T_2pow63 ==
    <<"9", "2", "2", "3", "3", "7", "2", "0", "3", "6",
      "8", "5", "4", "7", "7", "5", "8", "0", "8">>

BoundaryTexts ==
    { T_32767, T_32768, T_m32768, T_m32769, T_2147483647, T_2147483648,
      T_m2147483648, T_m2147483649, T_2pow63,
      <<"+">> \o T_32768, <<" ">> \o T_32767 \o <<" ">>,
      <<"0", "0">> \o T_32767, <<"9", "9", "9", "9", "9">>,
      <<"1", "0", "0", "0", "0", "0">>, <<"3", "2", "7", "6", "7", ".", "0">> }

WordTexts ==
    { <<"n", "a", "n">>, <<"I", "n", "f">>, <<"-", "i", "n", "f">>,
      <<"t", "r", "u">>, <<"t", "r", "u", "e", " ">>, <<" ", "o", "n">>,
      <<"y">>, <<"n", "o", "n", "e">>, <<"1", "e", "+", "1", "0">>,
      <<"T", "r", "u", "e", "1">> }

Texts == ShortTexts \cup BoolTexts \cup BoundaryTexts \cup WordTexts

TypeQueries == {TypeQueryRaises} \cup {TypeQueryGives(t) : t \in VariantTypes}

(***************************************************************************)
(* State.                                                                  *)
(***************************************************************************)
VARIABLES
    _opcua_client,  \* the global of line 16: None or a Client object
    clients,        \* number of Client objects constructed so far
    connected,      \* the Client objects whose transport is open
    store,          \* the remote node space: node id -> its Variant
    pc,             \* per request: where its handler stands
    op,             \* per request: the tool (or cleanup_client) it runs
    args,           \* per request: the call's argument list
    client,         \* per request: the local `client` / the object being (dis)connected
    i,              \* per request: index of the batch item in progress
    variant,        \* per request: the Variant detect_and_convert_value returned
    report,         \* per request: status_report (line 281)
    faults,         \* per request: what the transport did for each item (history)
    result,         \* per request: what the call returned to its caller
    connects,       \* Client.connect invocations since the last cleanup_client (history)
    returned,       \* clients get_opcua_client returned since the last cleanup_client (history)
    cv              \* one call of the coercion functions: input, step, output

sessionVars == <<_opcua_client, clients, connected, connects, returned>>

taskVars == <<pc, op, args, client, i, variant, report, faults, result>>

vars == <<_opcua_client, clients, connected, store, pc, op, args, client, i,
          variant, report, faults, result, connects, returned, cv>>

None == 0

Tasks == 1..NumTasks

\* Sequential request handling: one handler context, each call runs to its end.
SeqTasks == {1}

\* Node ids as the caller writes them; "bad" is a text NodeId.from_string rejects.
NodeA == "ns=2;i=2"

NodeB == "ns=2;i=3"

BadId == "bad"

Nodes == {NodeA, NodeB}

NodeIdTexts == Nodes \cup {BadId}

\* Values a caller writes.
WriteTexts == {T_1, T_on}

NoResult == [exc |-> "None", kind |-> "none", err |-> "None", body |-> <<>>]

CvIdle == [step |-> "idle", node |-> TypeQueryRaises, value |-> <<>>, out |-> Return(NoVariant)]

InitStore ==
    [n \in Nodes |-> IF n = NodeA
                     THEN Variant(IntValue(BigInt(FALSE, <<>>)), "Int16")
                     ELSE Variant(BoolValue(FALSE), "Boolean")]

InitSession ==
    /\ _opcua_client = None
    /\ clients = 0
    /\ connected = {}
    /\ connects = 0
    /\ returned = {}
    /\ store = InitStore

InitTasks ==
    /\ pc = [t \in Tasks |-> "idle"]
    /\ op = [t \in Tasks |-> "none"]
    /\ args = [t \in Tasks |-> <<>>]
    /\ client = [t \in Tasks |-> None]
    /\ i = [t \in Tasks |-> 0]
    /\ variant = [t \in Tasks |-> NoVariant]
    /\ report = [t \in Tasks |-> <<>>]
    /\ faults = [t \in Tasks |-> <<>>]
    /\ result = [t \in Tasks |-> NoResult]

Init == InitSession /\ InitTasks /\ cv = CvIdle

(***************************************************************************)
(* The coercion functions called on their own.                             *)
(***************************************************************************)
CoerceInit ==
    /\ InitSession
    /\ InitTasks
    /\ \E q \in TypeQueries, v \in Texts :
          cv = [step |-> "input", node |-> q, value |-> v, out |-> Return(NoVariant)]

CallDetectAndConvert ==
    /\ cv.step = "input"
    /\ cv' = [cv EXCEPT !.step = "converted",
                        !.out = detect_and_convert_value(cv.node, cv.value)]
    /\ UNCHANGED <<sessionVars, store, taskVars>>

CallAutoDetect ==
    /\ cv.step = "input"
    /\ cv' = [cv EXCEPT !.step = "detected",
                        !.out = Return(auto_detect_variant(cv.value))]
    /\ UNCHANGED <<sessionVars, store, taskVars>>

CoerceNext == CallDetectAndConvert \/ CallAutoDetect

CoerceSpec == CoerceInit /\ [][CoerceNext]_vars

(***************************************************************************)
(* Requests.  A tool call is started by Call_..., runs through its steps   *)
(* (one per stretch of code between two awaits) and ends in "done", where  *)
(* result holds what the caller gets; Respond hands it over.               *)
(***************************************************************************)
Result(kind, err, body) == [exc |-> "None", kind |-> kind, err |-> err, body |-> body]

\* Python dicts as the batch items: the keys present, and their values.
Item(node_id, value) == [keys |-> {"node_id", "value"}, node_id |-> node_id, value |-> value]

WellFormedItems == {Item(n, v) : n \in NodeIdTexts, v \in WriteTexts}

\* Dicts that lack one of the two keys.
MalformedItems ==
    { [keys |-> {"node_id"}, node_id |-> NodeA, value |-> <<>>],
      [keys |-> {"value"}, node_id |-> "", value |-> T_1] }

Items == WellFormedItems \cup MalformedItems

Lists(S, n) == UNION {[1..k -> S] : k \in 0..n}

Start(t, tool, arguments, at) ==
    /\ pc[t] = "idle"
    /\ op' = [op EXCEPT ![t] = tool]
    /\ args' = [args EXCEPT ![t] = arguments]
    /\ pc' = [pc EXCEPT ![t] = at]
    /\ i' = [i EXCEPT ![t] = 1]
    /\ UNCHANGED <<sessionVars, store, client, variant, report, faults, result, cv>>

Call_cleanup_client(t) == Start(t, "cleanup_client", <<>>, "cleanup")

Call_read_multiple_opcua_nodes(t, n) ==
    \E node_ids \in Lists(NodeIdTexts, n) :
        Start(t, "read_multiple_opcua_nodes", node_ids, "get_client")

Call_write_multiple_opcua_nodes(t, n) ==
    \E nodes_to_write \in Lists(Items, n) :
        Start(t, "write_multiple_opcua_nodes", nodes_to_write, "get_client")

\* The call's result is handed to the caller; its locals are gone.
Respond(t) ==
    /\ pc[t] = "done"
    /\ pc' = [pc EXCEPT ![t] = "idle"]
    /\ op' = [op EXCEPT ![t] = "none"]
    /\ args' = [args EXCEPT ![t] = <<>>]
    /\ client' = [client EXCEPT ![t] = None]
    /\ i' = [i EXCEPT ![t] = 0]
    /\ variant' = [variant EXCEPT ![t] = NoVariant]
    /\ report' = [report EXCEPT ![t] = <<>>]
    /\ faults' = [faults EXCEPT ![t] = <<>>]
    /\ result' = [result EXCEPT ![t] = NoResult]
    /\ UNCHANGED <<sessionVars, store, cv>>

\* Mutant: a tool without its outer try: what its body raises leaves the tool.
Finish_no_outer_except(t, r) ==
    /\ result' = [result EXCEPT ![t] =
                     IF r.kind = "error"
                     THEN [exc |-> r.err, kind |-> "raised", err |-> r.err, body |-> <<>>]
                     ELSE r]
    /\ pc' = [pc EXCEPT ![t] = "done"]

\* The tool's outer `except Exception as e: return f"Error ...: {e}"`.
Finish(t, r) ==
    /\ result' = [result EXCEPT ![t] = r]
    /\ pc' = [pc EXCEPT ![t] = "done"]

(***************************************************************************)
(* get_opcua_client (lines 18-37)                                          *)
(***************************************************************************)
\* Mutant: the `is None` test of line 22 dropped, a client made on every call.
get_opcua_client_always_new(t) ==
    /\ pc[t] = "get_client"
    /\ clients < MaxClients
    /\ clients' = clients + 1
    /\ _opcua_client' = clients + 1
    /\ client' = [client EXCEPT ![t] = clients + 1]
    /\ connects' = connects + 1
    /\ pc' = [pc EXCEPT ![t] = "connect"]
    /\ UNCHANGED <<returned, connected, store, op, args, i, variant, report, faults,
                   result, cv>>

\* Lines 22-34, up to the await of connect; or lines 22 and 37.
get_opcua_client(t) ==
    /\ pc[t] = "get_client"
    /\ IF _opcua_client = None
       THEN /\ clients < MaxClients
            /\ clients' = clients + 1
            /\ _opcua_client' = clients + 1
            /\ client' = [client EXCEPT ![t] = clients + 1]
            /\ connects' = connects + 1
            /\ pc' = [pc EXCEPT ![t] = "connect"]
            /\ UNCHANGED returned
       ELSE /\ client' = [client EXCEPT ![t] = _opcua_client]
            /\ returned' = returned \cup {_opcua_client}
            /\ pc' = [pc EXCEPT ![t] = "body"]
            /\ UNCHANGED <<_opcua_client, clients, connects>>
    /\ UNCHANGED <<connected, store, op, args, i, variant, report, faults, result, cv>>

\* Line 34 resumes: connect returned (lines 35-37), or raised, and the error
\* leaves get_opcua_client and lands in the tool's outer except.
get_opcua_client_connect(t) ==
    /\ pc[t] = "connect"
    /\ \E ok \in BOOLEAN :
          IF ok
          THEN /\ connected' = connected \cup {client[t]}
               /\ client' = [client EXCEPT ![t] = _opcua_client]
               /\ returned' = returned \cup {_opcua_client}
               /\ pc' = [pc EXCEPT ![t] = "body"]
               /\ UNCHANGED result
          ELSE /\ Finish(t, Result("error", "connect", <<>>))
               /\ UNCHANGED <<connected, client, returned>>
    /\ UNCHANGED <<_opcua_client, clients, connects, store, op, args, i, variant,
                   report, faults, cv>>

(***************************************************************************)
(* cleanup_client (lines 39-49)                                            *)
(***************************************************************************)
\* Lines 42-44, up to the await of disconnect.
cleanup_client(t) ==
    /\ pc[t] = "cleanup"
    /\ IF _opcua_client # None
       THEN /\ client' = [client EXCEPT ![t] = _opcua_client]
            /\ pc' = [pc EXCEPT ![t] = "disconnect"]
            /\ UNCHANGED result
       ELSE /\ Finish(t, Result("returned", "None", <<>>))
            /\ UNCHANGED client
    /\ UNCHANGED <<sessionVars, store, op, args, i, variant, report, faults, cv>>

\* Mutant: `_opcua_client = None` after the print of line 45 instead of in a
\* finally, so a raising disconnect leaves the global set.
cleanup_client_disconnect_no_finally(t) ==
    /\ pc[t] = "disconnect"
    /\ \E ok \in BOOLEAN, closed \in BOOLEAN :
          /\ ok => closed
          /\ connected' = IF closed THEN connected \ {client[t]} ELSE connected
          /\ _opcua_client' = IF ok THEN None ELSE _opcua_client
          /\ connects' = IF ok THEN 0 ELSE connects
          /\ returned' = IF ok THEN {} ELSE returned
    /\ Finish(t, Result("returned", "None", <<>>))
    /\ UNCHANGED <<clients, store, op, args, client, i, variant, report, faults, cv>>

\* Line 44 resumes: disconnect returned or raised (the transport may or may not
\* have been closed by then); except swallows, finally clears the global.
cleanup_client_disconnect(t) ==
    /\ pc[t] = "disconnect"
    /\ \E ok \in BOOLEAN, closed \in BOOLEAN :
          /\ ok => closed
          /\ connected' = IF closed THEN connected \ {client[t]} ELSE connected
    /\ _opcua_client' = None
    /\ connects' = 0
    /\ returned' = {}
    /\ Finish(t, Result("returned", "None", <<>>))
    /\ UNCHANGED <<clients, store, op, args, client, i, variant, report, faults, cv>>

(***************************************************************************)
(* The transport, as the tools see it.                                     *)
(***************************************************************************)
\* client.get_node(id): Node(...) parses the id text and raises on "bad".
get_node(node_id) ==
    IF node_id \in Nodes
    THEN [exc |-> "None", nodeid |-> node_id]
    ELSE [exc |-> "UaStringParsingError", nodeid |-> node_id]

\* node.nodeid.to_string()
to_string(nodeid) == nodeid

\* Whether a call on the connection may succeed: never on a client whose
\* transport is not open, and not always on one whose transport is.
IoOutcomes(c) == IF c \in connected THEN {TRUE, FALSE} ELSE {FALSE}

\* node.get_data_value() inside detect_and_convert_value.
TypeQueryOutcomes(c, n) ==
    {TypeQueryRaises} \cup
        (IF c \in connected THEN {TypeQueryGives(store[n].VariantType)} ELSE {})

\* A Python dict: its items in insertion order; a key that is already there
\* keeps its place and takes the new value.
DictSet(d, key, value) ==
    IF \E j \in 1..Len(d) : d[j].key = key
    THEN [j \in 1..Len(d) |-> IF d[j].key = key THEN [key |-> key, value |-> value] ELSE d[j]]
    ELSE Append(d, [key |-> key, value |-> value])

\* {key: value for key, value in zip(keys, values)}
RECURSIVE DictOfZip(_, _)
DictOfZip(keys, values) ==
    IF keys = <<>> \/ values = <<>>
    THEN <<>>
    ELSE LET n == IF Len(keys) < Len(values) THEN Len(keys) ELSE Len(values)
         IN  DictSet(DictOfZip(SubSeq(keys, 1, n - 1), SubSeq(values, 1, n - 1)),
                     keys[n], values[n])

\* f"Error reading node {node.nodeid.to_string()}: {str(e)}"
ReadErrorText(nodeid) == [k |-> "errtext", about |-> to_string(nodeid)]

(***************************************************************************)
(* read_multiple_opcua_nodes (lines 241-260), after get_opcua_client: no   *)
(* await, so one step.  plan[k] says whether the k-th get_value raises.    *)
(***************************************************************************)
read_multiple_opcua_nodes(t) ==
    /\ pc[t] = "body"
    /\ op[t] = "read_multiple_opcua_nodes"
    /\ \E plan \in [1..Len(args[t]) -> BOOLEAN] :
          /\ \A k \in 1..Len(args[t]) :
                (args[t][k] = BadId \/ FALSE \notin IoOutcomes(client[t])) => plan[k]
          /\ faults' = [faults EXCEPT ![t] =
                [k \in 1..Len(args[t]) |->
                    IF get_node(args[t][k]).exc # "None" THEN {"resolve"}
                    ELSE IF plan[k] THEN {"read"} ELSE {}]]
          /\ LET node_ids == args[t]
                 nodes_to_read == [k \in 1..Len(node_ids) |-> get_node(node_ids[k])]
                 values == [k \in 1..Len(node_ids) |->
                               IF plan[k]
                               THEN ReadErrorText(nodes_to_read[k].nodeid)
                               ELSE store[node_ids[k]].Value]
                 keys == [k \in 1..Len(node_ids) |-> to_string(nodes_to_read[k].nodeid)]
             IN  IF \E k \in 1..Len(node_ids) : nodes_to_read[k].exc # "None"
                 THEN Finish(t, Result("error", "UaStringParsingError", <<>>))
                 ELSE Finish(t, Result("ok", "None", DictOfZip(keys, values)))
    /\ UNCHANGED <<sessionVars, store, op, args, client, i, variant, report, cv>>

(***************************************************************************)
(* write_multiple_opcua_nodes (lines 277-312), after get_opcua_client.     *)
(***************************************************************************)
Absent == [k |-> "absent"]

\* lines 296-301
SuccessRecord(item, new_value) ==
    [node_id |-> item.node_id, value_written |-> item.value,
     verified_value |-> new_value, status |-> "Success"]

\* lines 303-307
ErrorRecord(item, e) ==
    [node_id |-> item.node_id, value_written |-> item.value,
     verified_value |-> Absent, status |-> "Error: " \o e]

NoteFault(t, f) ==
    faults' = [faults EXCEPT ![t] =
                  IF Len(@) < i[t] THEN Append(@, {f}) ELSE [@ EXCEPT ![i[t]] = @ \cup {f}]]

NoteNoFault(t) ==
    faults' = [faults EXCEPT ![t] = IF Len(@) < i[t] THEN Append(@, {}) ELSE @]

\* Mutant: the handler does not end the item: the loop tries the item again.
ItemFails_retries(t, e) ==
    /\ pc' = [pc EXCEPT ![t] = "body"]
    /\ UNCHANGED <<report, i, result>>

\* Mutant: no try around the item (as around line 243): the item's error ends
\* the batch in the outer except.
ItemFails_ends_batch(t, e) ==
    /\ Finish(t, Result("error", e, <<>>))
    /\ UNCHANGED <<report, i>>

\* The handler of lines 302-307 for the item in progress: it appends the
\* item's error record and the loop goes on, unless building the record raises
\* KeyError itself, which ends the batch in the outer except of line 311.
ItemFails(t, e) ==
    LET item == args[t][i[t]]
    IN  IF item.keys = {"node_id", "value"}
        THEN /\ report' = [report EXCEPT ![t] = Append(@, ErrorRecord(item, e))]
             /\ i' = [i EXCEPT ![t] = @ + 1]
             /\ pc' = [pc EXCEPT ![t] = "body"]
             /\ UNCHANGED result
        ELSE /\ Finish(t, Result("error", "KeyError", <<>>))
             /\ UNCHANGED <<report, i>>

\* Lines 282-287: the loop head, get_node, str(item['value']), up to the await
\* of detect_and_convert_value; after the last item, line 309.
write_multiple_opcua_nodes_item(t) ==
    /\ pc[t] = "body"
    /\ op[t] = "write_multiple_opcua_nodes"
    /\ IF i[t] > Len(args[t])
       THEN /\ Finish(t, Result("ok", "None", report[t]))
            /\ UNCHANGED <<report, i, faults>>
       ELSE LET item == args[t][i[t]]
            IN  IF "node_id" \notin item.keys
                THEN ItemFails(t, "KeyError") /\ NoteFault(t, "malformed")
                ELSE IF get_node(item.node_id).exc # "None"
                THEN ItemFails(t, get_node(item.node_id).exc) /\ NoteFault(t, "resolve")
                ELSE IF "value" \notin item.keys
                THEN ItemFails(t, "KeyError") /\ NoteFault(t, "malformed")
                ELSE /\ pc' = [pc EXCEPT ![t] = "detect"]
                     /\ NoteNoFault(t)
                     /\ UNCHANGED <<report, i, result>>
    /\ UNCHANGED <<sessionVars, store, op, args, client, variant, cv>>

\* Line 287 resumes with the variant, up to the await of set_data_value (291).
write_multiple_opcua_nodes_detect(t) ==
    /\ pc[t] = "detect"
    /\ LET item == args[t][i[t]]
       IN  \E q \in TypeQueryOutcomes(client[t], item.node_id) :
              LET r == detect_and_convert_value(q, item.value)
              IN  /\ IF q.raises THEN NoteFault(t, "typeq") ELSE UNCHANGED faults
                  /\ IF r.exc = "None"
                     THEN /\ variant' = [variant EXCEPT ![t] = r.ret]
                          /\ pc' = [pc EXCEPT ![t] = "write"]
                          /\ UNCHANGED <<report, i, result>>
                     ELSE /\ ItemFails(t, r.exc)
                          /\ UNCHANGED variant
    /\ UNCHANGED <<sessionVars, store, op, args, client, cv>>

\* Line 291 resumes: the write went through, up to the await of get_value
\* (294); or it raised.
write_multiple_opcua_nodes_write(t) ==
    /\ pc[t] = "write"
    /\ \E ok \in IoOutcomes(client[t]) :
          IF ok
          THEN /\ store' = [store EXCEPT ![args[t][i[t]].node_id] = variant[t]]
               /\ pc' = [pc EXCEPT ![t] = "verify"]
               /\ UNCHANGED <<report, i, result, faults>>
          ELSE /\ ItemFails(t, "write")
               /\ NoteFault(t, "write")
               /\ UNCHANGED store
    /\ UNCHANGED <<sessionVars, op, args, client, variant, cv>>

\* Line 294 resumes: the read-back returned (lines 296-301), or raised.
write_multiple_opcua_nodes_verify(t) ==
    /\ pc[t] = "verify"
    /\ LET item == args[t][i[t]]
       IN  \E ok \in IoOutcomes(client[t]) :
              IF ok
              THEN /\ report' = [report EXCEPT ![t] =
                          Append(@, SuccessRecord(item, store[item.node_id].Value))]
                   /\ i' = [i EXCEPT ![t] = @ + 1]
                   /\ pc' = [pc EXCEPT ![t] = "body"]
                   /\ UNCHANGED <<result, faults>>
              ELSE /\ ItemFails(t, "read")
                   /\ NoteFault(t, "read")
    /\ UNCHANGED <<sessionVars, store, op, args, client, variant, cv>>

(***************************************************************************)
(* Specifications.  Requests are handled one at a time (SeqTasks).         *)
(***************************************************************************)
Step(t) ==
    \/ get_opcua_client(t)
    \/ get_opcua_client_connect(t)
    \/ read_multiple_opcua_nodes(t)
    \/ write_multiple_opcua_nodes_item(t)
    \/ write_multiple_opcua_nodes_detect(t)
    \/ write_multiple_opcua_nodes_write(t)
    \/ write_multiple_opcua_nodes_verify(t)

\* The whole run: tool calls and cleanup_client, in any order.
Next ==
    \E t \in SeqTasks :
        \/ Call_read_multiple_opcua_nodes(t, MaxRunBatch)
        \/ Call_write_multiple_opcua_nodes(t, MaxRunBatch)
        \/ Call_cleanup_client(t)
        \/ cleanup_client(t)
        \/ cleanup_client_disconnect(t)
        \/ Step(t)
        \/ Respond(t)

Spec == Init /\ [][Next]_vars

\* The batch tools on longer batches, before any cleanup_client.
BatchNext ==
    \E t \in SeqTasks :
        \/ Call_read_multiple_opcua_nodes(t, MaxBatch)
        \/ Call_write_multiple_opcua_nodes(t, MaxBatch)
        \/ Step(t)
        \/ Respond(t)

BatchSpec == Init /\ [][BatchNext]_vars

(***************************************************************************)
(* Claims about the batch tools (checked under BatchSpec).                 *)
(***************************************************************************)
\* The call is over and its get_opcua_client had returned a client.
DoneWithSession(t, tool) ==
    pc[t] = "done" /\ op[t] = tool /\ result[t].err # "connect"

WellFormed(items) == \A k \in 1..Len(items) : items[k].keys = {"node_id", "value"}

\* The item's node resolution, write or verification read raised.
ItemFailed(f) == f \cap {"resolve", "write", "read"} # {}

\* C1: once the session is acquired, write_multiple_opcua_nodes on a list of
\* items (each with its node_id and value) reports exactly one record per item,
\* in input order, the k-th with the k-th item's node_id, whatever resolution,
\* type query, write and verification read do on each item; the k-th record is
\* an error record iff the k-th item's resolution, write or verification read
\* raised, and Success otherwise (a failing type query is absorbed by
\* detect_and_convert_value and does not fail the item).
C1_OneRecordPerItemInOrder ==
    \A t \in Tasks :
        (DoneWithSession(t, "write_multiple_opcua_nodes") /\ WellFormed(args[t]))
            => /\ result[t].kind = "ok"
               /\ Len(result[t].body) = Len(args[t])
               /\ Len(faults[t]) = Len(args[t])
               /\ \A k \in 1..Len(args[t]) :
                     LET rec == result[t].body[k]
                     IN  /\ rec.node_id = args[t][k].node_id
                         /\ rec.value_written = args[t][k].value
                         /\ rec.status = "Success" <=> ~ItemFailed(faults[t][k])
                         /\ rec.verified_value = Absent <=> ItemFailed(faults[t][k])

C1_Witness ==
    /\ DoneWithSession(1, "write_multiple_opcua_nodes")
    /\ args[1] = <<Item(NodeA, T_1), Item(NodeB, T_on)>>
    /\ faults[1] = <<{"write"}, {"typeq"}>>
    /\ result[1].body[1].status = "Error: write"
    /\ result[1].body[2].status = "Success"

NoRepeats(ids) == \A j, k \in 1..Len(ids) : ids[j] = ids[k] => j = k

AllResolve(ids) == \A k \in 1..Len(ids) : get_node(ids[k]).exc = "None"

\* C2: in read_multiple_opcua_nodes a failure on one node id, in resolving its
\* handle or in reading its value, becomes that id's own failure result and
\* never aborts the batch: every other id of the input has its value reported.
\* (Stated for inputs without repeated ids, which are C3's subject.)
C2_ReadFailureIsolated ==
    \A t \in Tasks :
        (DoneWithSession(t, "read_multiple_opcua_nodes") /\ NoRepeats(args[t]))
            => /\ result[t].kind = "ok"
               /\ \A k \in 1..Len(args[t]) :
                     \E j \in 1..Len(result[t].body) :
                         /\ result[t].body[j].key = args[t][k]
                         /\ IF faults[t][k] = {}
                            THEN result[t].body[j].value = store[args[t][k]].Value
                            ELSE result[t].body[j].value.k = "errtext"

\* C3: read_multiple_opcua_nodes returns as many results as input ids, the k-th
\* result for the k-th input id, also when an id is repeated.  (Stated for
\* inputs whose ids all resolve; a resolution failure is C2's subject.)
C3_OneResultPerInputId ==
    \A t \in Tasks :
        (DoneWithSession(t, "read_multiple_opcua_nodes") /\ AllResolve(args[t]))
            => /\ result[t].kind = "ok"
               /\ Len(result[t].body) = Len(args[t])
               /\ \A k \in 1..Len(args[t]) : result[t].body[k].key = args[t][k]

(***************************************************************************)
(* Claims about the session (checked under Spec).                          *)
(***************************************************************************)
\* C4: with no cleanup_client in between, all get_opcua_client calls that
\* return a client return the same one, and Client.connect has been invoked
\* exactly once.
C4_AcquireIdempotent ==
    /\ Cardinality(returned) <= 1
    /\ returned # {} => (connects = 1 /\ returned = {_opcua_client})

\* A later call (an earlier one has written to the store) holds the first client.
C4_Witness ==
    /\ pc[1] = "body"
    /\ store # InitStore
    /\ client[1] = 1
    /\ returned = {1}
    /\ connects = 1
    /\ clients = 1

\* C5: when connect raises inside get_opcua_client the error reaches the caller
\* and the global is None afterwards, so that no later get_opcua_client returns
\* a client whose connect failed.
C5_ClearedAfterFailedConnect ==
    \A t \in Tasks :
        /\ (pc[t] = "done" /\ result[t].err = "connect")
              => (result[t].kind = "error" /\ _opcua_client = None)
        /\ pc[t] = "body" => client[t] \in connected

\* C6: cleanup_client raises nothing and leaves the global None, whether
\* disconnect returned or raised ...
C6_ClearedAfterCleanup ==
    \A t \in Tasks :
        (pc[t] = "done" /\ op[t] = "cleanup_client")
            => (result[t].exc = "None" /\ _opcua_client = None)

\* ... and the get_opcua_client that follows a cleanup_client makes a new
\* client, stores it in the global and invokes its connect.
C6_GetAfterCleanup ==
    \A t \in Tasks :
        (pc[t] = "get_client" /\ pc'[t] # "get_client" /\ connects = 0 /\ clients > 0)
            => /\ clients' = clients + 1
               /\ _opcua_client' = clients'
               /\ client'[t] = clients'
               /\ connects' = 1
               /\ pc'[t] = "connect"

\* C6: cleanup_client never raises and always leaves the global None, and the
\* next get_opcua_client creates and connects a new client.
C6_CleanupClearsAndAllowsRetry == []C6_ClearedAfterCleanup /\ [][C6_GetAfterCleanup]_vars

\* The second client is being connected after a cleanup whose disconnect
\* raised and left the first client's transport open.
C6_Witness ==
    /\ pc[1] = "connect"
    /\ clients = 2
    /\ _opcua_client = 2
    /\ client[1] = 2
    /\ 1 \in connected

(***************************************************************************)
(* Claims about the coercion (checked under CoerceSpec).                   *)
(***************************************************************************)
Converted == cv.step = "converted"

Detected == cv.step = "detected"

\* The typed parse of lines 64-83 raises ValueError.
TypedParseRaises(node, value) ==
    /\ ~node.raises
    /\ \/ node.VariantType \in IntTypes /\ ~int(value).ok
       \/ node.VariantType \in FloatTypes /\ ~float(value).ok

\* C7 as stated: whenever the node's variant type is retrieved, the returned
\* variant has that type, whatever the text and whatever the type.
C7_TypeAlwaysMatchesNode ==
    (Converted /\ ~cv.node.raises)
        => cv.out.ret.VariantType = cv.node.VariantType

\* C7 amended: when the retrieved type is one of the twelve handled types and
\* the text parses as that type, the returned variant has the node's type; when
\* the text does not parse, or the type is not one of the twelve, the result is
\* auto_detect_variant(value).
C7_TypeMatchesNodeWhenParsed ==
    (Converted /\ ~cv.node.raises)
        => IF cv.node.VariantType \in HandledTypes
              /\ ~TypedParseRaises(cv.node, cv.value)
           THEN cv.out.ret.VariantType = cv.node.VariantType
           ELSE cv.out.ret = auto_detect_variant(cv.value)

C7_Witness ==
    /\ Converted
    /\ cv.node = TypeQueryGives("UInt32")
    /\ cv.value = T_32767
    /\ cv.out.ret.VariantType = "UInt32"

\* C8: detect_and_convert_value never raises and always returns a typed value;
\* when the type query fails or the typed parse raises, that value is exactly
\* auto_detect_variant(value).
C8_NeverRaisesFallsBack ==
    Converted
        => /\ cv.out.exc = "None"
           /\ cv.out.ret.VariantType \in VariantTypes
           /\ (cv.node.raises \/ TypedParseRaises(cv.node, cv.value))
                 => cv.out.ret = auto_detect_variant(cv.value)

C8_Witness ==
    /\ Converted
    /\ cv.node = TypeQueryGives("Int16")
    /\ cv.value = <<"1", ".", "0">>
    /\ cv.out = Return(Variant(FloatValue(float(cv.value).v), "Float"))

\* The value of at most nine decimal digits as a machine integer.
RECURSIVE NatOf(_)
NatOf(d) == IF d = <<>> THEN 0 ELSE 10 * NatOf(SubSeq(d, 1, Len(d) - 1)) + d[Len(d)]

SmallValue(v) == IF v.neg THEN 0 - NatOf(v.mag) ELSE NatOf(v.mag)

InInt16(v) == Len(v.mag) <= 5 /\ -32768 <= SmallValue(v) /\ SmallValue(v) <= 32767

\* -2147483648 <= v <= 2147483647, the ten-digit case decided on the leading
\* nine digits and the last one.
InInt32(v) ==
    \/ Len(v.mag) <= 9
    \/ /\ Len(v.mag) = 10
       /\ LET hi == NatOf(SubSeq(v.mag, 1, 9))
              lo == v.mag[10]
          IN  hi < 214748364 \/ (hi = 214748364 /\ lo <= (IF v.neg THEN 8 ELSE 7))

\* C9: on a text that parses as the integer v, auto_detect_variant stores v
\* itself, as Int16 iff -32768 <= v <= 32767, as Int32 iff v is outside that
\* range and -2147483648 <= v <= 2147483647, and as Int64 otherwise; 32767 is
\* Int16, 32768 and -32769 are Int32, 2147483648 is Int64.
C9_NarrowestSignedWidth ==
    (Detected /\ int(cv.value).ok)
        => LET v == int(cv.value).v
               T == cv.out.ret.VariantType
           IN  /\ cv.out.ret.Value = IntValue(v)
               /\ T \in {"Int16", "Int32", "Int64"}
               /\ T = "Int16" <=> InInt16(v)
               /\ T = "Int32" <=> (~InInt16(v) /\ InInt32(v))
               /\ T = "Int64" <=> (~InInt16(v) /\ ~InInt32(v))
               /\ cv.value = T_32767 =>
                      cv.out.ret = Variant(IntValue(BigInt(FALSE, <<3, 2, 7, 6, 7>>)), "Int16")
               /\ cv.value = T_32768 =>
                      cv.out.ret = Variant(IntValue(BigInt(FALSE, <<3, 2, 7, 6, 8>>)), "Int32")
               /\ cv.value = T_m32769 =>
                      cv.out.ret = Variant(IntValue(BigInt(TRUE, <<3, 2, 7, 6, 9>>)), "Int32")
               /\ cv.value = T_2147483648 =>
                      cv.out.ret.VariantType = "Int64"

C9_Witness ==
    /\ Detected
    /\ cv.value = T_2147483648
    /\ cv.out.ret =
          Variant(IntValue(BigInt(FALSE, <<2, 1, 4, 7, 4, 8, 3, 6, 4, 8>>)), "Int64")

\* C10: a text that is true/false/on/off/yes/no in any letter case gives, from
\* auto_detect_variant and from detect_and_convert_value on a Boolean node, a
\* Boolean that is true iff the word is true, on or yes; on a Boolean node every
\* other text gives Boolean false, except "1", which gives true (no fallback to
\* auto-detection); auto_detect_variant gives "1" as the Int16 1.
C10_BooleanTruthSet ==
    LET isWord  == \E w \in BoolWords : cv.value \in CaseVariants(w)
        isTrue  == \E w \in {T_true, T_on, T_yes} : cv.value \in CaseVariants(w)
    IN  /\ (Detected /\ isWord)
              => cv.out = Return(Variant(BoolValue(isTrue), "Boolean"))
        /\ (Converted /\ cv.node = TypeQueryGives("Boolean"))
              => cv.out = Return(Variant(BoolValue(isTrue \/ cv.value = T_1), "Boolean"))
        /\ (Detected /\ cv.value = T_1)
              => cv.out = Return(Variant(IntValue(BigInt(FALSE, <<1>>)), "Int16"))

C10_Witness ==
    /\ Converted
    /\ cv.node = TypeQueryGives("Boolean")
    /\ cv.value = <<"Y", "e", "S">>
    /\ cv.out.ret = Variant(BoolValue(TRUE), "Boolean")

(***************************************************************************)
(* The single-node tools, browse and the connection test.                  *)
(***************************************************************************)
\* client.get_node(id) on what get_opcua_client returned: None has no get_node
\* (get_opcua_client returns the global as it is after the await of line 34,
\* and a cleanup_client may have run in between).
client_get_node(c, node_id) ==
    IF c = None
    THEN [exc |-> "AttributeError", nodeid |-> node_id]
    ELSE get_node(node_id)

\* read_opcua_node (lines 153-159), after get_opcua_client: no await, one step.
Call_read_opcua_node(t) ==
    \E node_id \in NodeIdTexts :
        Start(t, "read_opcua_node", <<node_id>>, "get_client")

\* Mutant: the read tool resets the node it reads.
read_opcua_node_resetting(t) ==
    /\ pc[t] = "body"
    /\ op[t] = "read_opcua_node"
    /\ LET node_id == args[t][1]
           node == client_get_node(client[t], node_id)
       IN  IF node.exc # "None"
           THEN /\ Finish(t, Result("error", node.exc, <<>>))
                /\ NoteFault(t, "resolve")
                /\ UNCHANGED store
           ELSE \E ok \in IoOutcomes(client[t]) :
                   IF ok
                   THEN /\ Finish(t, Result("ok", "None", <<store[node_id].Value>>))
                        /\ NoteNoFault(t)
                        /\ store' = [store EXCEPT ![node_id] = InitStore[node_id]]
                   ELSE /\ Finish(t, Result("error", "read", <<>>))
                        /\ NoteFault(t, "read")
                        /\ UNCHANGED store
    /\ UNCHANGED <<sessionVars, op, args, client, i, variant, report, cv>>

read_opcua_node(t) ==
    /\ pc[t] = "body"
    /\ op[t] = "read_opcua_node"
    /\ LET node_id == args[t][1]
           node == client_get_node(client[t], node_id)
       IN  IF node.exc # "None"
           THEN /\ Finish(t, Result("error", node.exc, <<>>))
                /\ NoteFault(t, "resolve")
           ELSE \E ok \in IoOutcomes(client[t]) :
                   IF ok
                   THEN /\ Finish(t, Result("ok", "None", <<store[node_id].Value>>))
                        /\ NoteNoFault(t)
                   ELSE /\ Finish(t, Result("error", "read", <<>>))
                        /\ NoteFault(t, "read")
    /\ UNCHANGED <<sessionVars, store, op, args, client, i, variant, report, cv>>

\* write_opcua_node (lines 175-192), after get_opcua_client.
\* The values a caller of write_opcua_node writes: on the Boolean node one
\* gives true, the other false.
NodeWriteTexts == {T_1, T_off}

Call_write_opcua_node(t) ==
    \E node_id \in NodeIdTexts, value \in NodeWriteTexts :
        Start(t, "write_opcua_node", <<node_id, value>>, "get_client")

\* Lines 177-180: get_node, str(value), up to the await of
\* detect_and_convert_value.
write_opcua_node(t) ==
    /\ pc[t] = "body"
    /\ op[t] = "write_opcua_node"
    /\ LET node == client_get_node(client[t], args[t][1])
       IN  IF node.exc # "None"
           THEN /\ Finish(t, Result("error", node.exc, <<>>))
                /\ NoteFault(t, "resolve")
           ELSE /\ pc' = [pc EXCEPT ![t] = "node_detect"]
                /\ NoteNoFault(t)
                /\ UNCHANGED result
    /\ UNCHANGED <<sessionVars, store, op, args, client, i, variant, report, cv>>

\* Line 180 resumes with the variant, up to the await of set_data_value (184).
write_opcua_node_detect(t) ==
    /\ pc[t] = "node_detect"
    /\ \E q \in TypeQueryOutcomes(client[t], args[t][1]) :
          LET r == detect_and_convert_value(q, args[t][2])
          IN  /\ IF q.raises THEN NoteFault(t, "typeq") ELSE UNCHANGED faults
              /\ IF r.exc = "None"
                 THEN /\ variant' = [variant EXCEPT ![t] = r.ret]
                      /\ pc' = [pc EXCEPT ![t] = "node_write"]
                      /\ UNCHANGED result
                 ELSE /\ Finish(t, Result("error", r.exc, <<>>))
                      /\ UNCHANGED variant
    /\ UNCHANGED <<sessionVars, store, op, args, client, i, report, cv>>

\* Line 184 resumes: the write went through, up to the await of get_value
\* (187); or it raised.
write_opcua_node_write(t) ==
    /\ pc[t] = "node_write"
    /\ \E ok \in IoOutcomes(client[t]) :
          IF ok
          THEN /\ store' = [store EXCEPT ![args[t][1]] = variant[t]]
               /\ pc' = [pc EXCEPT ![t] = "node_verify"]
               /\ UNCHANGED <<result, faults>>
          ELSE /\ Finish(t, Result("error", "write", <<>>))
               /\ NoteFault(t, "write")
               /\ UNCHANGED store
    /\ UNCHANGED <<sessionVars, op, args, client, i, variant, report, cv>>

\* Mutant: a failing read-back is swallowed and the value written is reported
\* as verified.
write_opcua_node_verify_swallowing(t) ==
    /\ pc[t] = "node_verify"
    /\ \E ok \in IoOutcomes(client[t]) :
          IF ok
          THEN /\ Finish(t, Result("ok", "None", <<store[args[t][1]].Value>>))
               /\ UNCHANGED faults
          ELSE /\ Finish(t, Result("ok", "None", <<variant[t].Value>>))
               /\ NoteFault(t, "read")
    /\ UNCHANGED <<sessionVars, store, op, args, client, i, variant, report, cv>>

\* Line 187 resumes: the read-back returned (line 189), or raised.
write_opcua_node_verify(t) ==
    /\ pc[t] = "node_verify"
    /\ \E ok \in IoOutcomes(client[t]) :
          IF ok
          THEN /\ Finish(t, Result("ok", "None", <<store[args[t][1]].Value>>))
               /\ UNCHANGED faults
          ELSE /\ Finish(t, Result("error", "read", <<>>))
               /\ NoteFault(t, "read")
    /\ UNCHANGED <<sessionVars, store, op, args, client, i, variant, report, cv>>

(***************************************************************************)
(* The remote address space as browse sees it: the Objects folder holds    *)
(* the two variables; the first variable has MaxChildren children.         *)
(***************************************************************************)
ObjectsId == "i=85"

ChildId(k) == "ns=2;i=1" \o DigitChars[k + 1]

\* node.get_children(), when the call goes through
get_children(nodeid) ==
    IF nodeid = ObjectsId THEN <<NodeA, NodeB>>
    ELSE IF nodeid = NodeA THEN [k \in 1..MaxChildren |-> ChildId(k)]
    ELSE <<>>

\* child.get_browse_name(), when the call goes through
get_browse_name(nodeid) == [NamespaceIndex |-> 2, Name |-> "Name of " \o nodeid]

\* f"{browse_name.NamespaceIndex}:{browse_name.Name}"
FormatName(browse_name) ==
    [k |-> "name", ns |-> browse_name.NamespaceIndex, name |-> browse_name.Name]

\* f"Error getting name: {e}"
NamePlaceholder(e) == [k |-> "Error getting name", reason |-> e]

\* Lines 213-223 for one child: its entry, whether get_browse_name raised or not.
ChildEntry(child, raised) ==
    [node_id |-> to_string(child),
     browse_name |-> IF raised THEN NamePlaceholder("browse_name")
                     ELSE FormatName(get_browse_name(child))]

\* Mutant: a child whose name cannot be retrieved is left out.
RECURSIVE children_info_omitting(_, _)
children_info_omitting(children, raised) ==
    IF children = <<>>
    THEN <<>>
    ELSE LET n == Len(children)
             before == children_info_omitting(SubSeq(children, 1, n - 1),
                                              SubSeq(raised, 1, n - 1))
         IN  IF raised[n] THEN before ELSE Append(before, ChildEntry(children[n], FALSE))

\* Lines 211-223: the loop over the children; raised[k] says whether the k-th
\* get_browse_name raised.
children_info(children, raised) ==
    [k \in 1..Len(children) |-> ChildEntry(children[k], raised[k])]

Call_browse_opcua_node_children(t) ==
    \E node_id \in NodeIdTexts :
        Start(t, "browse_opcua_node_children", <<node_id>>, "get_client")

\* Lines 208-228, after get_opcua_client: no await, one step.
browse_opcua_node_children(t) ==
    /\ pc[t] = "body"
    /\ op[t] = "browse_opcua_node_children"
    /\ LET node == client_get_node(client[t], args[t][1])
       IN  IF node.exc # "None"
           THEN /\ Finish(t, Result("error", node.exc, <<>>))
                /\ faults' = [faults EXCEPT ![t] = <<>>]
           ELSE \E ok \in IoOutcomes(client[t]) :
                   IF ok
                   THEN LET children == get_children(node.nodeid)
                        IN  \E raised \in [1..Len(children) -> BOOLEAN] :
                               /\ Finish(t, Result("ok", "None",
                                                   children_info(children, raised)))
                               /\ faults' = [faults EXCEPT ![t] =
                                     [k \in 1..Len(children) |->
                                         IF raised[k] THEN {"browse_name"} ELSE {}]]
                   ELSE /\ Finish(t, Result("error", "get_children", <<>>))
                        /\ faults' = [faults EXCEPT ![t] = <<>>]
    /\ UNCHANGED <<sessionVars, store, op, args, client, i, variant, report, cv>>

Call_test_opcua_connection(t) == Start(t, "test_opcua_connection", <<>>, "get_client")

\* Lines 327-334, after get_opcua_client: no await, one step.  get_root_node
\* and get_objects_node only build handles; get_children goes to the server.
test_opcua_connection(t) ==
    /\ pc[t] = "body"
    /\ op[t] = "test_opcua_connection"
    /\ IF client[t] = None
       THEN Finish(t, Result("error", "AttributeError", <<>>))
       ELSE \E ok \in IoOutcomes(client[t]) :
               IF ok
               THEN Finish(t, Result("ok", "None", <<Len(get_children(ObjectsId))>>))
               ELSE Finish(t, Result("error", "get_children", <<>>))
    /\ UNCHANGED <<sessionVars, store, op, args, client, i, variant, report, faults, cv>>

(***************************************************************************)
(* All six tools, one request at a time.                                   *)
(***************************************************************************)
NodeStep(t) ==
    \/ read_opcua_node(t)
    \/ write_opcua_node(t)
    \/ write_opcua_node_detect(t)
    \/ write_opcua_node_write(t)
    \/ write_opcua_node_verify(t)
    \/ browse_opcua_node_children(t)
    \/ test_opcua_connection(t)

ToolNext ==
    \E t \in SeqTasks :
        \/ Call_read_opcua_node(t)
        \/ Call_write_opcua_node(t)
        \/ Call_browse_opcua_node_children(t)
        \/ Call_test_opcua_connection(t)
        \/ Call_read_multiple_opcua_nodes(t, MaxRunBatch)
        \/ Call_write_multiple_opcua_nodes(t, MaxBatch)
        \/ Step(t)
        \/ NodeStep(t)
        \/ Respond(t)

ToolSpec == Init /\ [][ToolNext]_vars

(***************************************************************************)
(* Claims about the tools' results (checked under ToolSpec).               *)
(***************************************************************************)
Tools ==
    {"read_opcua_node", "write_opcua_node", "browse_opcua_node_children",
     "read_multiple_opcua_nodes", "write_multiple_opcua_nodes", "test_opcua_connection"}

\* C11: every call of each of the six tools ends by returning a text, a result
\* or an error message, whichever step raised: connect, node resolution, type
\* query, read, write, verification read, or the KeyError of building a
\* per-item error record; nothing is raised out of the tool.
C11_ToolsAlwaysReturnText ==
    \A t \in Tasks :
        (pc[t] = "done" /\ op[t] \in Tools)
            => /\ result[t].exc = "None"
               /\ result[t].kind \in {"ok", "error"}

\* A batch whose item lacks 'value': the handler of line 302 raises KeyError
\* again at line 305 and the outer except of line 311 returns its text.
C11_Witness ==
    /\ pc[1] = "done"
    /\ op[1] = "write_multiple_opcua_nodes"
    /\ args[1] = <<[keys |-> {"node_id"}, node_id |-> NodeA, value |-> <<>>]>>
    /\ faults[1] = <<{"malformed"}>>
    /\ result[1] = Result("error", "KeyError", <<>>)

\* C12: a write whose set_data_value went through and whose verification read
\* raised ends as an error (write_opcua_node returns an error text; the item
\* of write_multiple_opcua_nodes gets an error record without verified_value)
\* while the node holds the value just written.
C12_WriteNotTransactional ==
    \A t \in Tasks :
        /\ (pc[t] = "done" /\ op[t] = "write_opcua_node" /\ faults[t] # <<>>
                /\ "read" \in faults[t][1])
              => /\ result[t].kind = "error"
                 /\ result[t].err = "read"
                 /\ store[args[t][1]] = variant[t]
        /\ (pc[t] = "body" /\ op[t] = "write_multiple_opcua_nodes" /\ i[t] > 1
                /\ Len(faults[t]) = i[t] - 1 /\ "read" \in faults[t][i[t] - 1])
              => LET item == args[t][i[t] - 1]
                     rec == report[t][i[t] - 1]
                 IN  /\ Len(report[t]) = i[t] - 1
                     /\ rec.node_id = item.node_id
                     /\ rec.status = "Error: read"
                     /\ rec.verified_value = Absent
                     /\ store[item.node_id] = variant[t]

\* write_opcua_node("ns=2;i=2", "1") returned an error and the node, 0 before,
\* holds the Int16 1.
C12_Witness ==
    /\ pc[1] = "done"
    /\ op[1] = "write_opcua_node"
    /\ args[1] = <<NodeA, T_1>>
    /\ faults[1] = <<{"read"}>>
    /\ result[1].kind = "error"
    /\ store[NodeA] = Variant(IntValue(BigInt(FALSE, <<1>>)), "Int16")
    /\ store[NodeA] # InitStore[NodeA]

\* C14: browse_opcua_node_children, once the node is resolved and its children
\* enumerated, returns one entry per child, in enumeration order, the k-th with
\* the k-th child's node id; a child whose get_browse_name raised has the
\* placeholder name holding the error, every other child its own name.
C14_OneEntryPerChild ==
    \A t \in Tasks :
        (pc[t] = "done" /\ op[t] = "browse_opcua_node_children" /\ result[t].kind = "ok")
            => LET children == get_children(args[t][1])
                   entries == result[t].body
               IN  /\ Len(entries) = Len(children)
                   /\ Len(faults[t]) = Len(children)
                   /\ \A k \in 1..Len(children) :
                         /\ entries[k].node_id = children[k]
                         /\ entries[k].browse_name =
                               IF faults[t][k] = {}
                               THEN [k |-> "name", ns |-> 2, name |-> "Name of " \o children[k]]
                               ELSE [k |-> "Error getting name", reason |-> "browse_name"]

\* The first child's name could not be retrieved, the second one's could.
C14_Witness ==
    /\ pc[1] = "done"
    /\ op[1] = "browse_opcua_node_children"
    /\ args[1] = <<NodeA>>
    /\ Len(faults[1]) = MaxChildren
    /\ faults[1][1] = {"browse_name"}
    /\ faults[1][2] = {}
    /\ result[1].body[1] = [node_id |-> "ns=2;i=11",
                            browse_name |-> [k |-> "Error getting name", reason |-> "browse_name"]]
    /\ result[1].body[2].browse_name.k = "name"

\* C19: a single write (write_opcua_node, and each item of
\* write_multiple_opcua_nodes) does type query, write, verification read in
\* this order, each at most once: the write is issued only when the type query
\* has returned a variant, the verification read only when the write has gone
\* through, no step is entered again, and in a batch a step of the next item
\* starts only after the item in progress has left its last step.
C19_WriteStepsInOrder ==
    [][\A t \in Tasks :
          /\ (pc'[t] = "detect" /\ pc[t] # "detect")
                => (pc[t] = "body" /\ i'[t] = i[t])
          /\ (pc'[t] = "write" /\ pc[t] # "write")
                => (pc[t] = "detect" /\ i'[t] = i[t] /\ variant'[t] # NoVariant)
          /\ (pc'[t] = "verify" /\ pc[t] # "verify")
                => /\ pc[t] = "write"
                   /\ i'[t] = i[t]
                   /\ store'[args[t][i[t]].node_id] = variant[t]
          /\ (pc[t] \in {"detect", "write", "verify"} /\ pc'[t] # pc[t])
                => \/ pc[t] = "detect" /\ pc'[t] = "write"
                   \/ pc[t] = "write" /\ pc'[t] = "verify"
                   \/ pc'[t] = "body" /\ i'[t] = i[t] + 1 /\ Len(report'[t]) = i[t]
          /\ (pc'[t] = "node_detect" /\ pc[t] # "node_detect") => pc[t] = "body"
          /\ (pc'[t] = "node_write" /\ pc[t] # "node_write")
                => (pc[t] = "node_detect" /\ variant'[t] # NoVariant)
          /\ (pc'[t] = "node_verify" /\ pc[t] # "node_verify")
                => (pc[t] = "node_write" /\ store'[args[t][1]] = variant[t])
          /\ (pc[t] \in {"node_detect", "node_write", "node_verify"} /\ pc'[t] # pc[t])
                => \/ pc[t] = "node_detect" /\ pc'[t] = "node_write"
                   \/ pc[t] = "node_write" /\ pc'[t] = "node_verify"
                   \/ pc'[t] = "done"]_vars

\* The second item of a batch is in its verification read; the first item, whose
\* write failed, has its record.
C19_Witness ==
    /\ op[1] = "write_multiple_opcua_nodes"
    /\ pc[1] = "verify"
    /\ i[1] = 2
    /\ Len(report[1]) = 1
    /\ faults[1] = <<{"write"}, {}>>
    /\ store[args[1][2].node_id] = variant[1]

ReadOnlyTools ==
    {"read_opcua_node", "read_multiple_opcua_nodes", "browse_opcua_node_children",
     "test_opcua_connection"}

\* C20: no step of a read-only tool (read_opcua_node, read_multiple_opcua_nodes,
\* browse_opcua_node_children, test_opcua_connection), successful or failing,
\* changes the value of a node, and the only steps of theirs that change the
\* session (the global, the clients made, the open transports) are those of
\* get_opcua_client.
C20_ReadOnlyToolsChangeNoNode ==
    [][\A t \in Tasks :
          (op[t] \in ReadOnlyTools /\ pc'[t] # pc[t])
              => /\ store' = store
                 /\ pc[t] \notin {"get_client", "connect"}
                       => /\ _opcua_client' = _opcua_client
                          /\ clients' = clients
                          /\ connected' = connected]_vars

\* read_opcua_node has read the Boolean node after a write had set it to true.
C20_Witness ==
    /\ pc[1] = "done"
    /\ op[1] = "read_opcua_node"
    /\ args[1] = <<NodeB>>
    /\ store[NodeB] = Variant(BoolValue(TRUE), "Boolean")
    /\ store # InitStore
    /\ result[1] = Result("ok", "None", <<BoolValue(TRUE)>>)

(***************************************************************************)
(* A claim about the session's lifecycle (checked under Spec).             *)
(***************************************************************************)
\* cleanup_client has disconnected a session and nothing has replaced it: only
\* line 49 sets the global back to None.
Shutdown == clients > 0 /\ _opcua_client = None

\* C15: once cleanup_client has completed, no get_opcua_client invokes
\* Client.connect again and no client becomes connected.
C15_NoConnectAfterShutdown ==
    [][Shutdown => (connects' = connects /\ clients' = clients /\ connected' \subseteq connected)]_vars

(***************************************************************************)
(* Requests handled concurrently: the server starts a handler per request, *)
(* and a handler gives way to the others at each await; the calls handed   *)
(* to asyncio.to_thread run in worker threads meanwhile.                   *)
(***************************************************************************)
\* The handler is running code of the event loop's thread: it goes on to its
\* next await before any other handler runs.
Running(t) == pc[t] \in {"get_client", "body", "cleanup"}

\* The event loop can run a step of t: no other handler is in the middle of one.
Turn(t) == \A u \in Tasks \ {t} : ~Running(u)

ConcNext ==
    \E t \in Tasks :
        \/ Turn(t) /\ Call_read_opcua_node(t)
        \/ Turn(t) /\ Call_write_opcua_node(t)
        \/ Turn(t) /\ Call_cleanup_client(t)
        \/ Turn(t) /\ get_opcua_client(t)
        \/ Turn(t) /\ get_opcua_client_connect(t)
        \/ Turn(t) /\ cleanup_client(t)
        \/ Turn(t) /\ cleanup_client_disconnect(t)
        \/ Turn(t) /\ read_opcua_node(t)
        \/ Turn(t) /\ write_opcua_node(t)
        \/ Turn(t) /\ write_opcua_node_detect(t)
        \/ Turn(t) /\ write_opcua_node_write(t)
        \/ Turn(t) /\ write_opcua_node_verify(t)
        \/ Turn(t) /\ Respond(t)

ConcSpec == Init /\ [][ConcNext]_vars

(***************************************************************************)
(* Claims about concurrent requests (checked under ConcSpec).              *)
(***************************************************************************)
\* C13: a write_opcua_node that reports success reports as verified value the
\* value of the variant it passed to set_data_value, also when other write
\* requests to the same node are in progress.
C13_VerifiedIsWritten ==
    \A t \in Tasks :
        (pc[t] = "done" /\ op[t] = "write_opcua_node" /\ result[t].kind = "ok")
            => result[t].body = <<variant[t].Value>>

\* C16: in every state, whatever way tool requests and cleanup_client
\* interleave at their awaits, at most one client is connected, and a connected
\* client is the one the global holds.
C16_OneConnectedClientIsGlobal ==
    /\ Cardinality(connected) <= 1
    /\ connected \subseteq {_opcua_client}

\* C17: a client that get_opcua_client returns is connected when it is
\* returned, also to a request that calls get_opcua_client while another
\* request is suspended in connect.
C17_ReturnedClientIsConnected ==
    [][\A t \in Tasks :
          (pc[t] \in {"get_client", "connect"} /\ pc'[t] = "body")
              => client'[t] \in connected']_vars

\* The request is suspended in an await of asyncio.to_thread: its transport
\* call (connect, disconnect, type query, write, read) is running in a worker
\* thread.
InTransportCall(t) ==
    pc[t] \in {"connect", "disconnect", "detect", "write", "verify",
               "node_detect", "node_write", "node_verify"}

\* C18: with several tool requests in flight, at most one of them has a
\* transport call executing on the shared client at any time.
C18_OneTransportCallAtATime ==
    Cardinality({t \in Tasks : op[t] \in Tools /\ InTransportCall(t)}) <= 1

====
